---- MODULE Spec2Model ----
(***************************************************************************)
(* Model of associate_amps (amps.py, amps_db.py): the ingestion of         *)
(* amplitude documents into the station/channel/pgm tables, the            *)
(* association of stations with events, and the retention purge.           *)
(*                                                                         *)
(* The store is the SQLite store that get_session opens by default and     *)
(* that the tests use: foreign keys are declared but not enforced, a bulk  *)
(* Query.delete() removes only the rows of the table it names, and a new   *)
(* row of an INTEGER PRIMARY KEY table gets the largest id in use plus one.*)
(*                                                                         *)
(* Units.  Datetimes are whole seconds.  Measurement values are fixed      *)
(* point numbers in hundredths.  Coordinates are points of one meridian    *)
(* (lon = 0) and lat is given as kilometres of arc along it, so that the   *)
(* great-circle distance of two points is the absolute difference of their *)
(* lat.                                                                    *)
(***************************************************************************)
EXTENDS Integers, Sequences, FiniteSets, TLC

VARIABLES event, station, channel, pgm, now, last, job

vars == <<event, station, channel, pgm, now, last, job>>

-----------------------------------------------------------------------------
(* Program constants                                                       *)

TMIN == 60
TMAX == 180
DISTANCE == 500
MAX_AMP_AGE == 15
MAX_EVENT_AGE == 90
STATION_WINDOW_SECS == 10
DaySecs == 86400
GRAVITY_X100 == 981

IMTS == {"acc", "vel", "sa", "pga", "pgv"}

IMTDICT(imt) == IF imt = "acc" THEN "pga" ELSE IF imt = "vel" THEN "pgv" ELSE imt

-----------------------------------------------------------------------------
(* Bounds of the model                                                     *)

MaxStations == 2
MaxChannels == 3
MaxEvents == 2
MaxProcs == 2

-----------------------------------------------------------------------------
(* Helpers                                                                 *)

abs(x) == IF x < 0 THEN -x ELSE x

MaxOf(S) == CHOOSE m \in S : \A x \in S : x <= m

MinOf(S) == CHOOSE m \in S : \A x \in S : m <= x

\* the id a table gives to its next row
NextId(rows) == IF rows = {} THEN 1 ELSE MaxOf({r.id : r \in rows}) + 1

\* the rows of a table in the order a query returns them (by id)
RECURSIVE RowsById(_)
RowsById(rows) ==
    IF rows = {} THEN <<>>
    ELSE LET r == CHOOSE x \in rows : \A y \in rows : x.id <= y.id
         IN  <<r>> \o RowsById(rows \ {r})

\* value / 9.81 on hundredths
DivG(value) == (value * 100) \div GRAVITY_X100

\* period.replace('.', '') on a string given as its characters
RemoveDots(period) == SelectSeq(period, LAMBDA c : c # ".")

-----------------------------------------------------------------------------
(* Amplitude documents                                                     *)
(*                                                                         *)
(* A document is what insert_amps reads of it: whether it parses, its root *)
(* tag, the time source under record/timing/reference, the attributes of   *)
(* the first station element and, in document order, every component the   *)
(* record holds with its children.  An absent string attribute is "".      *)

Measurement(tag, valkind, value, hasperiod, period) ==
    [tag |-> tag, valkind |-> valkind, value |-> value,
     hasperiod |-> hasperiod, period |-> period]

\* a child element with a numeric value attribute and no period
Peak(tag, value) == Measurement(tag, "num", value, FALSE, <<>>)

\* an sa element with a numeric value and a period
Spectral(value, period) == Measurement("sa", "num", value, TRUE, period)

Component(name, qualkind, qual, pgms) ==
    [name |-> name, loc |-> "", qualkind |-> qualkind, qual |-> qual, pgms |-> pgms]

Document(timesrc, pgmdate, code, lat, components) ==
    [wellformed |-> TRUE, root |-> "amplitudes", agency |-> "us",
     timesrc |-> timesrc, pgmdate |-> pgmdate,
     lat |-> lat, lon |-> 0, code |-> code, name |-> "Station 1",
     net |-> "us", netid |-> "", components |-> components]

NoDocument == Document("none", 0, "", 0, <<>>)

\* the type label of a stored measurement: the tag and, for sa, the digits
\* of the period; the label string is their concatenation
ImtLabel(name, digits) == [name |-> name, digits |-> digits]

-----------------------------------------------------------------------------
(* insert_amps                                                             *)

\* a faulty variant of ParsePgm: the division for pga is decided on the tag
\* as it arrived, before the remap of the legacy names
ParsePgm_divbeforeremap(p) ==
    IF p.tag \notin IMTS
    THEN [kind |-> "skip", error |-> "", imt |-> ImtLabel("", <<>>), value |-> 0]
    ELSE IF p.valkind = "absent"
    THEN [kind |-> "raise", error |-> "TypeError", imt |-> ImtLabel("", <<>>), value |-> 0]
    ELSE IF p.valkind # "num"
    THEN [kind |-> "skip", error |-> "", imt |-> ImtLabel("", <<>>), value |-> 0]
    ELSE IF p.tag = "sa" /\ ~p.hasperiod
    THEN [kind |-> "raise", error |-> "AttributeError", imt |-> ImtLabel("", <<>>), value |-> 0]
    ELSE LET imt1   == IF p.tag = "sa"
                       THEN ImtLabel("psa", RemoveDots(p.period))
                       ELSE ImtLabel(p.tag, <<>>)
             value1 == IF p.tag = "sa" THEN DivG(p.value) ELSE p.value
             value2 == IF imt1 = ImtLabel("pga", <<>>) THEN DivG(value1) ELSE value1
             imt2   == ImtLabel(IMTDICT(imt1.name), imt1.digits)
         IN  [kind |-> "ok", error |-> "", imt |-> imt2, value |-> value2]

\* what one child of a component contributes: it is skipped, it raises, or
\* it yields a label and a value
ParsePgm(p) ==
    IF p.tag \notin IMTS
    THEN [kind |-> "skip", error |-> "", imt |-> ImtLabel("", <<>>), value |-> 0]
    ELSE IF p.valkind = "absent"
    THEN [kind |-> "raise", error |-> "TypeError", imt |-> ImtLabel("", <<>>), value |-> 0]
    ELSE IF p.valkind # "num"
    THEN [kind |-> "skip", error |-> "", imt |-> ImtLabel("", <<>>), value |-> 0]
    ELSE IF p.tag = "sa" /\ ~p.hasperiod
    THEN [kind |-> "raise", error |-> "AttributeError", imt |-> ImtLabel("", <<>>), value |-> 0]
    ELSE LET imt1   == IF p.tag = "sa"
                       THEN ImtLabel("psa", RemoveDots(p.period))
                       ELSE ImtLabel(p.tag, <<>>)
             value1 == IF p.tag = "sa" THEN DivG(p.value) ELSE p.value
             imt2   == ImtLabel(IMTDICT(imt1.name), imt1.digits)
             value2 == IF imt2 = ImtLabel("pga", <<>>) THEN DivG(value1) ELSE value1
         IN  [kind |-> "ok", error |-> "", imt |-> imt2, value |-> value2]

\* the loop over the children of one component: the list of measurements to
\* save, or the exception that ended it
RECURSIVE PgmLoop(_, _, _)
PgmLoop(pgms, existing_pgms, pgm_list) ==
    IF pgms = <<>>
    THEN [raised |-> FALSE, error |-> "", list |-> pgm_list]
    ELSE LET r == ParsePgm(Head(pgms))
         IN  IF r.kind = "raise"
             THEN [raised |-> TRUE, error |-> r.error, list |-> pgm_list]
             ELSE IF r.kind = "skip" \/ r.imt \in existing_pgms
             THEN PgmLoop(Tail(pgms), existing_pgms, pgm_list)
             ELSE PgmLoop(Tail(pgms), existing_pgms,
                          Append(pgm_list, [imt |-> r.imt, value |-> r.value]))

\* session.bulk_save_objects(pgm_list)
BulkSave(pg, channel_id, pgm_list) ==
    pg \cup {[id |-> NextId(pg) + i - 1, channel_id |-> channel_id,
              imt |-> pgm_list[i].imt, value |-> pgm_list[i].value] :
             i \in 1..Len(pgm_list)}

\* the loop over the components of the record.  t holds the channel and pgm
\* tables as committed so far, channels_inserted, and the exception if one
\* was raised; existing_channels maps the names found at the start to ids
RECURSIVE ComponentLoop(_, _, _, _)
ComponentLoop(comps, best_sid, existing_channels, t) ==
    IF comps = <<>> \/ t.raised THEN t
    ELSE
    LET c     == Head(comps)
        iqual == IF c.qualkind = "int" THEN c.qual ELSE 0
    IN
    IF iqual > 4 THEN ComponentLoop(Tail(comps), best_sid, existing_channels, t)
    ELSE
    LET loc              == IF c.loc = "" THEN "--" ELSE c.loc
        inserted_channel == c.name \notin DOMAIN existing_channels
        best_cid         == IF inserted_channel THEN NextId(t.channel)
                            ELSE existing_channels[c.name]
        channel1         == IF inserted_channel
                            THEN t.channel \cup {[id |-> best_cid, station_id |-> best_sid,
                                                  channel |-> c.name, loc |-> loc]}
                            ELSE t.channel
        inserted1        == IF inserted_channel THEN t.channels_inserted + 1
                            ELSE t.channels_inserted
        existing_pgms    == IF inserted_channel THEN {}
                            ELSE {p.imt : p \in {q \in t.pgm : q.channel_id = best_cid}}
        r                == PgmLoop(c.pgms, existing_pgms, <<>>)
    IN
    IF inserted_channel /\ c.name = ""
    THEN [t EXCEPT !.raised = TRUE, !.error = "IncorrectDataTypesException"]
    ELSE IF r.raised
    THEN [t EXCEPT !.channel = channel1, !.channels_inserted = inserted1,
                   !.raised = TRUE, !.error = r.error]
    ELSE IF Len(r.list) > 0
    THEN ComponentLoop(Tail(comps), best_sid, existing_channels,
                       [t EXCEPT !.channel = channel1, !.channels_inserted = inserted1,
                                 !.pgm = BulkSave(t.pgm, best_cid, r.list)])
    ELSE \* a channel inserted here is deleted again and the count taken back
         ComponentLoop(Tail(comps), best_sid, existing_channels, t)

\* a faulty variant of Candidates: a stored timestamp matches only when it
\* equals pgmdate
Candidates_exact(st, network, code, pgmdate) ==
    {s \in st : s.network = network /\ s.code = code /\ s.timestamp = pgmdate}

\* the Station rows of the +/- STATION_WINDOW_SECS query
Candidates(st, network, code, pgmdate) ==
    {s \in st : /\ s.network = network
                /\ s.code = code
                /\ s.timestamp > pgmdate - STATION_WINDOW_SECS
                /\ s.timestamp < pgmdate + STATION_WINDOW_SECS}

\* the loop that picks the row closest to pgmdate; 0 stands for None
RECURSIVE BestStation(_, _, _, _)
BestStation(rows, pgmdate, best_sid, best_time) ==
    IF rows = <<>> THEN best_sid
    ELSE LET dtime == abs(Head(rows).timestamp - pgmdate)
         IN  IF best_sid = 0 \/ dtime < best_time
             THEN BestStation(Tail(rows), pgmdate, Head(rows).id, dtime)
             ELSE BestStation(Tail(rows), pgmdate, best_sid, best_time)

\* the result of a call: the tables it leaves and how it ended
Outcome(st, ch, pg, outcome, error, best_sid, nrows) ==
    [station |-> st, channel |-> ch, pgm |-> pg, outcome |-> outcome,
     error |-> error, best_sid |-> best_sid, nrows |-> nrows]

\* the query for the channels of a station that is already there: it names
\* Station.station_id, an attribute the Station class does not have
QueryExistingChannels(ch, best_sid) ==
    [raised |-> TRUE, error |-> "AttributeError", rows |-> [n \in {} |-> 0]]

\* a faulty variant of MergeExisting: the channels of the station are found
\* and the measurements they hold are replaced by those of the document
MergeExisting_replace(st, ch, pg, doc, best_sid, nrows) ==
    LET rows == {c \in ch : c.station_id = best_sid}
        kept == {p \in pg : \A c \in rows : p.channel_id # c.id}
        t == ComponentLoop(doc.components, best_sid,
                           [n \in {c.channel : c \in rows} |->
                               MaxOf({c.id : c \in {d \in rows : d.channel = n}})],
                           [channel |-> ch, pgm |-> kept, channels_inserted |-> 0,
                            raised |-> FALSE, error |-> ""])
    IN  Outcome(st, t.channel, t.pgm,
                IF t.raised THEN "raised" ELSE "returned", t.error, best_sid, nrows)

\* a faulty variant of MergeExisting: the station found takes the time and the
\* place of the new report before its channels are looked up
MergeExisting_retime(st, ch, pg, doc, best_sid, nrows) ==
    LET q   == QueryExistingChannels(ch, best_sid)
        st1 == {IF s.id = best_sid
                THEN [s EXCEPT !.timestamp = doc.pgmdate, !.lat = doc.lat,
                               !.lon = doc.lon]
                ELSE s : s \in st}
    IN  Outcome(st1, ch, pg, IF q.raised THEN "raised" ELSE "returned", q.error,
                best_sid, nrows)

\* the branch taken when the window query found a station
MergeExisting(st, ch, pg, doc, best_sid, nrows) ==
    LET q == QueryExistingChannels(ch, best_sid)
        t == ComponentLoop(doc.components, best_sid, q.rows,
                           [channel |-> ch, pgm |-> pg, channels_inserted |-> 0,
                            raised |-> FALSE, error |-> ""])
    IN  IF q.raised
        THEN Outcome(st, ch, pg, "raised", q.error, best_sid, nrows)
        ELSE Outcome(st, t.channel, t.pgm,
                     IF t.raised THEN "raised" ELSE "returned", t.error, best_sid, nrows)

\* the branch taken when it found none: the station is inserted with
\* event_id 0, then its channels, and it is deleted again if none was kept
InsertNew(st, ch, pg, doc, network, clock) ==
    LET best_sid == NextId(st)
        row == [id |-> best_sid, event_id |-> 0, timestamp |-> doc.pgmdate,
                lat |-> doc.lat, lon |-> doc.lon, name |-> doc.name,
                code |-> doc.code, network |-> network, loadtime |-> clock]
        t == ComponentLoop(doc.components, best_sid, [n \in {} |-> 0],
                           [channel |-> ch, pgm |-> pg, channels_inserted |-> 0,
                            raised |-> FALSE, error |-> ""])
    IN  IF t.raised
        THEN Outcome(st \cup {row}, t.channel, t.pgm, "raised", t.error, best_sid, 0)
        ELSE IF t.channels_inserted = 0
        THEN Outcome(st, t.channel, t.pgm, "returned", "", best_sid, 0)
        ELSE Outcome(st \cup {row}, t.channel, t.pgm, "returned", "", best_sid, 0)

Network(doc) ==
    IF doc.net # "" THEN doc.net ELSE IF doc.netid # "" THEN doc.netid ELSE doc.agency

\* a faulty variant of insert_amps: the tag of the root element is not looked
\* at
insert_amps_anyroot(st, ch, pg, doc, clock) ==
    IF ~doc.wellformed
    THEN Outcome(st, ch, pg, "raised", "Exception", 0, 0)
    ELSE IF doc.timesrc = "none"
    THEN Outcome(st, ch, pg, "returned", "", 0, 0)
    ELSE IF doc.timesrc = "partial"
    THEN Outcome(st, ch, pg, "raised", "KeyError", 0, 0)
    ELSE
    LET network == Network(doc)
        rows    == RowsById(Candidates(st, network, doc.code, doc.pgmdate))
    IN  IF rows # <<>> /\ doc.timesrc = "PGMTime"
        THEN Outcome(st, ch, pg, "raised", "TypeError", 0, Len(rows))
        ELSE LET best_sid == BestStation(rows, doc.pgmdate, 0, 0)
             IN  IF best_sid = 0
                 THEN InsertNew(st, ch, pg, doc, network, clock)
                 ELSE MergeExisting(st, ch, pg, doc, best_sid, Len(rows))

\* the document is fetched and parsed and its root tag is checked; a time
\* source of "none" is a reference element without PGMTime and without any
\* of the year .. msec elements, "partial" one with some but not all of year
\* .. second, "fields" one with all of them
insert_amps(st, ch, pg, doc, clock) ==
    IF ~doc.wellformed \/ doc.root # "amplitudes"
    THEN Outcome(st, ch, pg, "raised", "Exception", 0, 0)
    ELSE IF doc.timesrc = "none"
    THEN Outcome(st, ch, pg, "returned", "", 0, 0)
    ELSE IF doc.timesrc = "partial"
    THEN Outcome(st, ch, pg, "raised", "KeyError", 0, 0)
    ELSE
    LET network == Network(doc)
        rows    == RowsById(Candidates(st, network, doc.code, doc.pgmdate))
    IN  \* a PGMTime date carries a timezone and the stored timestamps do not
        IF rows # <<>> /\ doc.timesrc = "PGMTime"
        THEN Outcome(st, ch, pg, "raised", "TypeError", 0, Len(rows))
        ELSE LET best_sid == BestStation(rows, doc.pgmdate, 0, 0)
             IN  IF best_sid = 0
                 THEN InsertNew(st, ch, pg, doc, network, clock)
                 ELSE MergeExisting(st, ch, pg, doc, best_sid, Len(rows))

-----------------------------------------------------------------------------
(* Station(...)                                                            *)

\* Station.STATION: the columns and the python type of each
STATION ==
    [event_id |-> "int", timestamp |-> "datetime", lat |-> "float", lon |-> "float",
     network |-> "str", name |-> "str", code |-> "str", loadtime |-> "datetime"]

\* the NULL of the nullable column Station.event_id, python's None; the ids
\* the store hands out are positive
None == -1

\* the keyword arguments of a constructor call: the python type of each
\* value, and the values the row is made of
StationKwargs(event_id_type, event_id, timestamp, code) ==
    [types |-> [event_id |-> event_id_type, timestamp |-> "datetime",
                lat |-> "float", lon |-> "float", network |-> "str",
                name |-> "str", code |-> "str", loadtime |-> "datetime"],
     event_id |-> event_id, timestamp |-> timestamp, lat |-> 0, lon |-> 0,
     network |-> "us", name |-> "Station 1", code |-> code]

NoKwargs == StationKwargs("int", 0, 0, "")

\* the exception validate_inputs raises, "" when it raises none; kwtypes maps
\* each keyword to the type of its value
validate_inputs(defdict, kwtypes) ==
    IF ~(DOMAIN defdict \subseteq DOMAIN kwtypes)
    THEN "IncompleteConstructorException"
    ELSE IF \E key \in DOMAIN kwtypes : kwtypes[key] # defdict[key]
    THEN "IncorrectDataTypesException"
    ELSE ""

\* Station(...), session.add(station), session.commit()
AddStation(st, kwargs, clock) ==
    LET error == validate_inputs(STATION, kwargs.types)
    IN  IF error # ""
        THEN [station |-> st, outcome |-> "raised", error |-> error]
        ELSE [station |-> st \cup {[id |-> NextId(st), event_id |-> kwargs.event_id,
                                    timestamp |-> kwargs.timestamp,
                                    lat |-> kwargs.lat, lon |-> kwargs.lon,
                                    name |-> kwargs.name, code |-> kwargs.code,
                                    network |-> kwargs.network, loadtime |-> clock]},
              outcome |-> "returned", error |-> ""]

-----------------------------------------------------------------------------
(* insert_event                                                            *)

\* an event descriptor; lat_keys tells whether it has the keys lat and lon,
\* latitude_keys whether it has the keys latitude and longitude
EventDict(eventid, ids, time, lat, magnitude, lat_keys, latitude_keys) ==
    [eventid |-> eventid, ids |-> ids, netid |-> "us", time |-> time,
     lat |-> lat, lon |-> 0, depth |-> 10, magnitude |-> magnitude,
     locstring |-> "somewhere", lat_keys |-> lat_keys,
     latitude_keys |-> latitude_keys]

NoEventDict == EventDict("", <<>>, 0, 0, 0, FALSE, FALSE)

\* a faulty variant of FindEvent: the identifiers are tried from the last
\* alternate one back to eventid
RECURSIVE FindEvent_altfirst(_, _)
FindEvent_altfirst(ev, allids) ==
    IF allids = <<>> THEN <<>>
    ELSE LET rows == RowsById({e \in ev : e.eventid = allids[Len(allids)]})
         IN  IF rows = <<>> THEN FindEvent_altfirst(ev, SubSeq(allids, 1, Len(allids) - 1))
             ELSE <<Head(rows)>>

\* the first of allids that names a stored event, as a sequence of at most
\* one Event row (the first row the query returns)
RECURSIVE FindEvent(_, _)
FindEvent(ev, allids) ==
    IF allids = <<>> THEN <<>>
    ELSE LET rows == RowsById({e \in ev : e.eventid = Head(allids)})
         IN  IF rows = <<>> THEN FindEvent(ev, Tail(allids)) ELSE <<Head(rows)>>

\* result: the event table, how the call ended, and the value returned
insert_event(ev, eventdict) ==
    LET found == FindEvent(ev, <<eventdict.eventid>> \o eventdict.ids)
    IN  IF found # <<>>
        THEN IF ~eventdict.latitude_keys
             THEN [event |-> ev, outcome |-> "raised", error |-> "KeyError", value |-> "None"]
             ELSE LET eventobj == found[1]
                      updated  == [eventobj EXCEPT !.eventid = eventdict.eventid,
                                                   !.time = eventdict.time,
                                                   !.lat = eventdict.lat,
                                                   !.lon = eventdict.lon,
                                                   !.depth = eventdict.depth,
                                                   !.magnitude = eventdict.magnitude,
                                                   !.locstring = eventdict.locstring]
                  IN  [event |-> (ev \ {eventobj}) \cup {updated},
                       outcome |-> "returned", error |-> "", value |-> "True"]
        ELSE IF ~eventdict.lat_keys
             THEN [event |-> ev, outcome |-> "raised", error |-> "KeyError", value |-> "None"]
             ELSE [event |-> ev \cup {[id |-> NextId(ev), eventid |-> eventdict.eventid,
                                       netid |-> eventdict.netid, time |-> eventdict.time,
                                       lat |-> eventdict.lat, lon |-> eventdict.lon,
                                       depth |-> eventdict.depth,
                                       magnitude |-> eventdict.magnitude,
                                       locstring |-> eventdict.locstring]},
                   outcome |-> "returned", error |-> "", value |-> "None"]

-----------------------------------------------------------------------------
(* associate                                                               *)

\* great-circle distance in km of two points of one meridian
geodetic_distance(lons1, lats1, lons2, lats2) == abs(lats1 - lats2)

\* the Station rows of the join with Channel and PGM
JoinedStations(st, ch, pg) ==
    {s \in st : \E c \in ch : c.station_id = s.id /\ \E p \in pg : p.channel_id = c.id}

inside_time(s, e) == s.timestamp > e.time - TMIN /\ s.timestamp < e.time + TMAX

\* a faulty variant of inside_distance: a station at exactly DISTANCE counts
\* as inside
inside_distance_inclusive(s, e) ==
    geodetic_distance(e.lon, e.lat, s.lon, s.lat) <= DISTANCE

inside_distance(s, e) == geodetic_distance(e.lon, e.lat, s.lon, s.lat) < DISTANCE

\* a faulty variant of NewStations: the rows are filtered on inside_time alone
NewStations_timeonly(st, ch, pg, e) ==
    LET srows == {s \in JoinedStations(st, ch, pg) :
                    s.timestamp > e.time - TMIN /\ s.timestamp < e.time + TMAX}
    IN  {s.id : s \in {r \in srows : inside_time(r, e)}}

\* the ids of the rows kept by the window filter.  The traveltime and dt
\* columns the code also computes are read by nothing and are left out
NewStations(st, ch, pg, e) ==
    LET srows == {s \in JoinedStations(st, ch, pg) :
                    s.timestamp > e.time - TMIN /\ s.timestamp < e.time + TMAX}
    IN  {s.id : s \in {r \in srows : inside_time(r, e) /\ inside_distance(r, e)}}

\* the station table after associate(session, e)
associate(st, ch, pg, e) ==
    LET ids == NewStations(st, ch, pg, e)
    IN  {IF s.id \in ids THEN [s EXCEPT !.event_id = e.id] ELSE s : s \in st}

-----------------------------------------------------------------------------
(* get_metrics_json                                                        *)
(*                                                                         *)
(* The payload is the dictionary that json.dumps is given; of it, the list *)
(* under 'features'.  A period is held in tenths of a second.              *)

UNITS(pgmname) == IF pgmname = "PGV" THEN "cm/s" ELSE "%g"

\* pgm.imt.upper()
Upper(name) ==
    IF name = "pga" THEN "PGA" ELSE IF name = "pgv" THEN "PGV"
    ELSE IF name = "psa" THEN "PSA" ELSE name

\* float() of a string of decimal digits
RECURSIVE DigitsValue(_)
DigitsValue(digits) ==
    IF digits = <<>> THEN 0
    ELSE LET d == CHOOSE n \in 0..9 :
                    <<"0", "1", "2", "3", "4", "5", "6", "7", "8", "9">>[n + 1]
                        = digits[Len(digits)]
         IN  10 * DigitsValue(SubSeq(digits, 1, Len(digits) - 1)) + d

\* the loop over the measurements of one channel: the entries by name, the
\* list of spectral entries, and whether re.search found no number
RECURSIVE PgmDicts(_, _)
PgmDicts(pgms, t) ==
    IF pgms = <<>> \/ t.raised THEN t
    ELSE LET p == Head(pgms)
         IN  IF p.imt.name \in {"sa", "psa"}
             THEN IF p.imt.digits = <<>>
                  THEN [t EXCEPT !.raised = TRUE]
                  ELSE PgmDicts(Tail(pgms),
                         [t EXCEPT !.spectrals =
                             Append(@, [value |-> p.value,
                                        period |-> DigitsValue(p.imt.digits),
                                        damping |-> 5, units |-> UNITS("SA")])])
             ELSE PgmDicts(Tail(pgms),
                    [t EXCEPT !.component =
                        (Upper(p.imt.name) :>
                            [value |-> p.value, units |-> UNITS(Upper(p.imt.name))]) @@ @])

\* the loop over the channels of one station: components[channel.channel] is
\* assigned for each in turn.  A component is held as its entries by name
\* (peaks) and the list under 'SA', which is empty when that key is absent
RECURSIVE Components(_, _, _)
Components(chans, pg, t) ==
    IF chans = <<>> \/ t.raised THEN t
    ELSE LET c == Head(chans)
             r == PgmDicts(RowsById({p \in pg : p.channel_id = c.id}),
                           [component |-> <<>>, spectrals |-> <<>>, raised |-> FALSE])
         IN  IF r.raised THEN [t EXCEPT !.raised = TRUE]
             ELSE Components(Tail(chans), pg,
                    [t EXCEPT !.components =
                        (c.channel :> [peaks |-> r.component, SA |-> r.spectrals]) @@ @])

\* the loop over event.stations
RECURSIVE Features(_, _, _, _)
Features(stations, ch, pg, t) ==
    IF stations = <<>> \/ t.raised THEN t
    ELSE LET station1 == Head(stations)
             r == Components(RowsById({c \in ch : c.station_id = station1.id}), pg,
                             [components |-> <<>>, raised |-> FALSE])
         IN  IF r.raised THEN [t EXCEPT !.raised = TRUE]
             ELSE Features(Tail(stations), ch, pg,
                    [t EXCEPT !.features =
                        Append(@, [coordinates |-> <<station1.lon, station1.lat>>,
                                   network_code |-> station1.network,
                                   station_code |-> station1.code,
                                   name |-> station1.name,
                                   provider |-> "NEIC ShakeMap",
                                   components |-> r.components])])

get_metrics_json(e, st, ch, pg) ==
    LET r == Features(RowsById({s \in st : s.event_id = e.id}), ch, pg,
                      [features |-> <<>>, raised |-> FALSE])
    IN  IF r.raised
        THEN [outcome |-> "raised", error |-> "AttributeError", features |-> <<>>]
        ELSE [outcome |-> "returned", error |-> "", features |-> r.features]

-----------------------------------------------------------------------------
(* associate_amps                                                          *)

\* a faulty variant of SweepLoop: the stations of the event are deleted
\* before event.stations is read for the export
RECURSIVE SweepLoop_releasefirst(_, _, _, _, _, _)
SweepLoop_releasefirst(events, st, ch, pg, sink_ok, exported) ==
    IF events = <<>>
    THEN [station |-> st, outcome |-> "returned", error |-> "", exported |-> exported]
    ELSE LET e   == Head(events)
             st1 == associate(st, ch, pg, e)
         IN  SweepLoop_releasefirst(Tail(events), {s \in st1 : s.event_id # e.id},
                                    ch, pg, sink_ok, exported)

\* the loop over the events.  write_event_to_s3 builds the payload with
\* get_metrics_json and hands it to the sink; sink_ok tells whether the sink
\* takes it.  st is the station table as committed so far and exported the
\* sequence of exports made: the event, the ids of event.stations and the
\* features of the payload
RECURSIVE SweepLoop(_, _, _, _, _, _)
SweepLoop(events, st, ch, pg, sink_ok, exported) ==
    IF events = <<>>
    THEN [station |-> st, outcome |-> "returned", error |-> "", exported |-> exported]
    ELSE LET e         == Head(events)
             st1       == associate(st, ch, pg, e)
             stations  == {s \in st1 : s.event_id = e.id}
             eventjson == get_metrics_json(e, st1, ch, pg)
         IN  IF stations # {} /\ eventjson.outcome = "raised"
             THEN [station |-> st1, outcome |-> "raised", error |-> eventjson.error,
                   exported |-> exported]
             ELSE IF stations # {} /\ ~sink_ok
             THEN [station |-> st1, outcome |-> "raised", error |-> "Exception",
                   exported |-> exported]
             ELSE SweepLoop(Tail(events), st1 \ stations, ch, pg, sink_ok,
                            IF stations = {} THEN exported
                            ELSE Append(exported, [event_id |-> e.id,
                                                   stations |-> {s.id : s \in stations},
                                                   payload |-> eventjson.features]))

associate_amps(ev, st, ch, pg, sink_ok) ==
    SweepLoop(RowsById(ev), st, ch, pg, sink_ok, <<>>)

-----------------------------------------------------------------------------
(* clean_database                                                          *)

\* a faulty variant of OldStations: a Station loaded exactly MAX_AMP_AGE days
\* ago counts as old
OldStations_inclusive(st, clock) ==
    {s \in st : s.loadtime <= clock - MAX_AMP_AGE * DaySecs}

OldStations(st, clock) == {s \in st : s.loadtime < clock - MAX_AMP_AGE * DaySecs}

OldEvents(ev, clock) == {e \in ev : e.time < clock - MAX_EVENT_AGE * DaySecs}

-----------------------------------------------------------------------------
(* session.delete(station): the delete cascade of the relationships        *)

CascadeChannels(ch, s) == {c \in ch : c.station_id = s.id}

CascadePgms(ch, pg, s) ==
    {p \in pg : \E c \in CascadeChannels(ch, s) : p.channel_id = c.id}

-----------------------------------------------------------------------------
(* The inputs                                                              *)

HN(name, pgms) == Component(name, "absent", 0, pgms)

\* the children of the components the documents are built from
Bodies ==
    { <<HN("HN1", <<Peak("pga", 981)>>)>>,
      <<HN("HN1", <<Peak("pga", 1962)>>)>>,
      <<HN("HN2", <<Peak("vel", 5)>>)>>,
      <<HN("HN1", <<Peak("acc", 981), Peak("pga", 1962)>>)>>,
      <<HN("HN1", <<Spectral(981, <<"1", ".", "0">>), Spectral(1962, <<"1", "0">>)>>)>>,
      <<HN("HN1", <<Peak("pga", 981)>>), HN("HN1", <<Peak("pgv", 5)>>)>>,
      <<HN("HN1", <<Peak("pgd", 7)>>)>>,
      <<Component("HN1", "int", 5, <<Peak("pga", 981)>>)>>,
      <<HN("HN1", <<Peak("pga", 981)>>),
        HN("HN2", <<Measurement("pga", "absent", 0, FALSE, <<>>)>>)>>,
      <<HN("HN1", <<Measurement("sa", "num", 981, FALSE, <<>>)>>)>> }

\* the documents of the ingestion runs: one station key, report times up to
\* STATION_WINDOW_SECS apart
IngestTimes == {100, 104, 105, 110}

IngestDocs ==
    {Document("PGMTime", t, "ABC", 0, b) : t \in IngestTimes, b \in Bodies}
    \cup {Document("fields", t, "ABC", 0, b) :
            t \in IngestTimes,
            b \in { <<HN("HN1", <<Peak("pga", 981)>>)>>,
                    <<HN("HN1", <<Peak("pga", 1962)>>)>>,
                    <<HN("HN2", <<Peak("vel", 5)>>)>> }}
    \cup {Document("none", 0, "ABC", 0, <<HN("HN1", <<Peak("pga", 981)>>)>>),
          Document("partial", 0, "ABC", 0, <<HN("HN1", <<Peak("pga", 981)>>)>>),
          [Document("PGMTime", 100, "ABC", 0, <<HN("HN1", <<Peak("pga", 981)>>)>>)
              EXCEPT !.wellformed = FALSE],
          [Document("PGMTime", 100, "ABC", 0, <<HN("HN1", <<Peak("pga", 981)>>)>>)
              EXCEPT !.root = "shakemap-data"]}

\* the documents of the association runs: times and places on and around the
\* bounds of the windows of the events below, and one document that raises
\* after its station and channel were written
AssocDocs ==
    {Document("PGMTime", x[1], x[2], x[3], <<HN("HN1", <<Peak("pga", 981)>>)>>) :
        x \in {<<100, "ABC", 0>>, <<110, "ABC", 0>>, <<110, "DEF", 500>>,
               <<120, "DEF", 499>>, <<340, "DEF", 0>>, <<339, "ABC", 0>>}}
    \cup {Document("PGMTime", 110, "GHI", 0,
                   <<HN("HN1", <<Measurement("pga", "absent", 0, FALSE, <<>>)>>)>>)}

\* the documents of the runs of the whole program
SweepDocs ==
    {Document("PGMTime", x[1], x[2], x[3], <<HN("HN1", <<Peak("pga", 981)>>)>>) :
        x \in {<<100, "ABC", 0>>, <<110, "ABC", 0>>, <<110, "DEF", 500>>,
               <<340, "DEF", 0>>}}

EventDicts ==
    { EventDict("us1", <<>>, 160, 0, 65, TRUE, FALSE),
      EventDict("us3", <<>>, 170, 0, 65, TRUE, FALSE),
      EventDict("us2", <<"us1">>, 161, 1, 67, FALSE, TRUE) }

ClockTimes ==
    {DaySecs, DaySecs + MAX_AMP_AGE * DaySecs + 1, DaySecs + MAX_EVENT_AGE * DaySecs + 1}

\* the inputs of the retention runs: events one second apart, descriptors
\* with the keys the tests pass (lat, lon), with the keys the docstring of
\* insert_event names (latitude, longitude) and with both, and clock times
\* that put the two thresholds on a load time and on an origin time
EventFeed ==
    { EventDict("us1", <<>>, 160, 0, 65, TRUE, FALSE),
      EventDict("us2", <<>>, 161, 0, 65, TRUE, FALSE),
      EventDict("us2", <<"us1">>, 161, 1, 67, TRUE, FALSE),
      EventDict("us2", <<"us1">>, 161, 1, 67, FALSE, TRUE),
      EventDict("us3", <<"us1", "us2">>, 160, 2, 68, FALSE, TRUE) }

RetentionDocs ==
    {Document("PGMTime", x[1], x[2], 0, <<HN("HN1", <<Peak("pga", 981)>>)>>) :
        x \in {<<100, "ABC">>, <<110, "DEF">>}}

RetentionTimes ==
    { (MAX_EVENT_AGE - MAX_AMP_AGE) * DaySecs + 160,
      (MAX_EVENT_AGE - MAX_AMP_AGE) * DaySecs + 161,
      MAX_EVENT_AGE * DaySecs + 161 }

\* the documents of the export runs: the three components of the test
\* document, a record that names HN1 twice, and a second report of ABC
ExportDocs ==
    { Document("PGMTime", 110, "ABC", 0,
               <<HN("HN1", <<Peak("pga", 981), Spectral(981, <<"0", ".", "3">>)>>),
                 HN("HN2", <<Peak("pgv", 5)>>),
                 HN("HNZ", <<Spectral(981, <<"1", ".", "0">>),
                             Spectral(1962, <<"3", ".", "0">>)>>)>>),
      Document("PGMTime", 120, "DEF", 0,
               <<HN("HN1", <<Peak("pga", 981)>>), HN("HN1", <<Peak("pgv", 5)>>)>>),
      Document("PGMTime", 339, "ABC", 0, <<HN("HN1", <<Peak("pga", 981)>>)>>),
      Document("PGMTime", 110, "DEF", 500, <<HN("HN1", <<Peak("pga", 981)>>)>>) }

\* the documents of the concurrent ingestion runs: reports of one station
\* five seconds apart
ConcurrentDocs ==
    {Document(src, t, "ABC", 0, <<HN("HN1", <<Peak("pga", 981)>>)>>) :
        src \in {"PGMTime", "fields"}, t \in {100, 105, 110}}

\* the documents of the concurrent association runs: a station inside the
\* windows of both events of EventDicts and one inside those of the first
RaceDocs ==
    {Document("PGMTime", x[1], x[2], 0, <<HN("HN1", <<Peak("pga", 981)>>)>>) :
        x \in {<<120, "ABC">>, <<110, "DEF">>}}

\* the constructor calls of the tests: event_id given as an integer and as
\* None (0 stands in the second for a value that is never stored)
\* the inputs of the runs in which a sweep meets an insert_amps call in
\* progress: a record of two components, one for the same station that is
\* dated by its year .. second elements, and one whose only component has no
\* measurement that is kept; and an event whose windows hold them all
PartialDocs ==
    { Document("PGMTime", 110, "ABC", 0,
               <<HN("HN1", <<Peak("pga", 981)>>), HN("HN2", <<Peak("pga", 1962)>>)>>),
      Document("fields", 110, "ABC", 0, <<HN("HN1", <<Peak("pga", 981)>>)>>),
      Document("PGMTime", 110, "GHI", 0, <<HN("HN1", <<Peak("pgd", 981)>>)>>) }

PartialEvents == {EventDict("us1", <<>>, 160, 0, 65, TRUE, FALSE)}

\* the documents of the runs that follow a spectral period from the record
\* to the payload: the periods of the test document, a period without a
\* decimal point next to one with, and a period of two decimals
PeriodDocs ==
    { Document("PGMTime", 110, "ABC", 0,
               <<HN("HN1", <<Spectral(981, <<"0", ".", "3">>),
                             Spectral(1962, <<"3", ".", "0">>)>>)>>),
      Document("PGMTime", 110, "DEF", 0,
               <<HN("HN1", <<Spectral(981, <<"1", ".", "0">>),
                             Spectral(1962, <<"1", "0">>)>>)>>),
      Document("PGMTime", 110, "GHI", 0,
               <<HN("HN1", <<Spectral(981, <<"0", ".", "2", "5">>)>>)>>) }

StationCalls ==
    {StationKwargs(x[1], 0, x[2], x[3]) :
        x \in {"int", "NoneType"} \X {100, 110, 339} \X {"ABC", "ABCD"}}

-----------------------------------------------------------------------------
(* os.environ                                                              *)

DB_URL == "DB_URL"

S3_BUCKET_URL == "S3_BUCKET_URL"

\* the names the program looks up in os.environ; an environment is the set
\* of those that are defined
Environ == {DB_URL, S3_BUCKET_URL}

\* get_bucket(): whether it raises
get_bucket(environ) ==
    IF S3_BUCKET_URL \notin environ
    THEN [raised |-> TRUE, error |-> "KeyError"]
    ELSE [raised |-> FALSE, error |-> ""]

\* the environments of the calls that do not export, with and without
\* DB_URL, and the documents and events of the runs of those calls
StoreEnvirons == {Environ, Environ \ {DB_URL}}

EnvironDocs ==
    {Document("PGMTime", x[1], x[2], 0, <<HN("HN1", <<Peak("pga", 981)>>)>>) :
        x \in {<<100, "ABC">>, <<110, "DEF">>}}

EnvironEvents == {EventDict("us1", <<>>, 160, 0, 65, TRUE, FALSE)}

-----------------------------------------------------------------------------
(* The state machine                                                       *)

\* what the last operation was, on what, and how it ended
Last(op, doc, eventdict, event_id, r) ==
    [op |-> op, doc |-> doc, eventdict |-> eventdict, event_id |-> event_id,
     outcome |-> r.outcome, error |-> r.error, best_sid |-> r.best_sid,
     nrows |-> r.nrows, value |-> r.value, exported |-> r.exported,
     payload |-> r.payload, kwargs |-> r.kwargs, environ |-> r.environ]

Ended(outcome, error) ==
    [outcome |-> outcome, error |-> error, best_sid |-> 0, nrows |-> 0,
     value |-> "None", exported |-> <<>>, payload |-> <<>>, kwargs |-> NoKwargs,
     environ |-> Environ]

\* the processes that may run insert_amps or associate at the same time, each
\* with its own session; a job is what a call in progress holds between two
\* of its statements: for insert_amps the document, best_sid, the number of
\* rows of the window query, the components the loop has not reached yet and
\* channels_inserted; for associate the event, the ids of newstations and,
\* for reference, the Station rows of those ids as they were when the query
\* read them
Procs == 1..MaxProcs

IdleJob ==
    [pc |-> "idle", doc |-> NoDocument, best_sid |-> 0, nrows |-> 0,
     event_id |-> 0, ids |-> {}, srows |-> {},
     comps |-> <<>>, channels_inserted |-> 0]

Init ==
    /\ job = [p \in Procs |-> IdleJob]
    /\ event = {}
    /\ station = {}
    /\ channel = {}
    /\ pgm = {}
    /\ now = DaySecs
    /\ last = Last("", NoDocument, NoEventDict, 0, Ended("", ""))

InsertAmps(doc) ==
    LET r == insert_amps(station, channel, pgm, doc, now)
    IN  /\ \A s \in r.station : s.id <= MaxStations
        /\ \A c \in r.channel : c.id <= MaxChannels
        /\ station' = r.station
        /\ channel' = r.channel
        /\ pgm' = r.pgm
        /\ last' = Last("insert_amps", doc, NoEventDict, 0,
                        [Ended(r.outcome, r.error) EXCEPT !.best_sid = r.best_sid,
                                                          !.nrows = r.nrows])
        /\ UNCHANGED <<event, now, job>>

InsertEvent(eventdict) ==
    LET r == insert_event(event, eventdict)
    IN  /\ \A e \in r.event : e.id <= MaxEvents
        /\ event' = r.event
        /\ last' = Last("insert_event", NoDocument, eventdict, 0,
                        [Ended(r.outcome, r.error) EXCEPT !.value = r.value])
        /\ UNCHANGED <<station, channel, pgm, now, job>>

Associate(e) ==
    /\ station' = associate(station, channel, pgm, e)
    /\ last' = Last("associate", NoDocument, NoEventDict, e.id, Ended("returned", ""))
    /\ UNCHANGED <<event, channel, pgm, now, job>>

AssociateAmps(sink_ok) ==
    LET r == associate_amps(event, station, channel, pgm, sink_ok)
    IN  /\ station' = r.station
        /\ last' = Last("associate_amps", NoDocument, NoEventDict, 0,
                        [Ended(r.outcome, r.error) EXCEPT !.exported = r.exported])
        /\ UNCHANGED <<event, channel, pgm, now, job>>

CleanDatabase ==
    /\ station' = station \ OldStations(station, now)
    /\ event' = event \ OldEvents(event, now)
    /\ last' = Last("clean_database", NoDocument, NoEventDict, 0, Ended("returned", ""))
    /\ UNCHANGED <<channel, pgm, now, job>>

NewStation(kwargs) ==
    LET r == AddStation(station, kwargs, now)
    IN  /\ \A s \in r.station : s.id <= MaxStations
        /\ station' = r.station
        /\ last' = Last("Station", NoDocument, NoEventDict, 0,
                        [Ended(r.outcome, r.error) EXCEPT !.kwargs = kwargs])
        /\ UNCHANGED <<event, channel, pgm, now, job>>

SessionDelete(s) ==
    /\ station' = station \ {s}
    /\ channel' = channel \ CascadeChannels(channel, s)
    /\ pgm' = pgm \ CascadePgms(channel, pgm, s)
    /\ last' = Last("session_delete", NoDocument, NoEventDict, 0, Ended("returned", ""))
    /\ UNCHANGED <<event, now, job>>

\* insert_amps up to the choice of best_sid: the document is read and the
\* window query is run.  The call ends here when the document is rejected or
\* skipped, or when the subtraction of the dates raises
FindStation(p, doc) ==
    LET network == Network(doc)
        rows    == RowsById(Candidates(station, network, doc.code, doc.pgmdate))
        ends    == IF ~doc.wellformed \/ doc.root # "amplitudes"
                   THEN Ended("raised", "Exception")
                   ELSE IF doc.timesrc = "none" THEN Ended("returned", "")
                   ELSE IF doc.timesrc = "partial" THEN Ended("raised", "KeyError")
                   ELSE IF rows # <<>> /\ doc.timesrc = "PGMTime"
                   THEN [Ended("raised", "TypeError") EXCEPT !.nrows = Len(rows)]
                   ELSE Ended("", "")
    IN  /\ job[p].pc = "idle"
        /\ IF ends.outcome # ""
           THEN /\ job' = job
                /\ last' = Last("insert_amps", doc, NoEventDict, 0, ends)
           ELSE /\ job' = [job EXCEPT ![p] =
                             [IdleJob EXCEPT
                                 !.pc = "found", !.doc = doc,
                                 !.best_sid = BestStation(rows, doc.pgmdate, 0, 0),
                                 !.nrows = Len(rows)]]
                /\ last' = Last("find_station", doc, NoEventDict, 0, Ended("", ""))
        /\ UNCHANGED <<event, station, channel, pgm, now>>

\* the rest of insert_amps: the Station is inserted when best_sid is None,
\* then the components are stored
StoreRecord(p) ==
    LET doc == job[p].doc
        r   == IF job[p].best_sid = 0
               THEN InsertNew(station, channel, pgm, doc, Network(doc), now)
               ELSE MergeExisting(station, channel, pgm, doc,
                                  job[p].best_sid, job[p].nrows)
    IN  /\ job[p].pc = "found"
        /\ \A s \in r.station : s.id <= MaxStations
        /\ \A c \in r.channel : c.id <= MaxChannels
        /\ station' = r.station
        /\ channel' = r.channel
        /\ pgm' = r.pgm
        /\ job' = [job EXCEPT ![p] = IdleJob]
        /\ last' = Last("insert_amps", doc, NoEventDict, 0,
                        [Ended(r.outcome, r.error) EXCEPT !.best_sid = r.best_sid,
                                                          !.nrows = r.nrows])
        /\ UNCHANGED <<event, now>>

\* insert_amps from the choice of best_sid to the loop over the components:
\* the Station is inserted and committed when best_sid is None; otherwise
\* the query for the channels of the station raises and the call ends
BeginStore(p) ==
    LET doc == job[p].doc
        q   == QueryExistingChannels(channel, job[p].best_sid)
        row == [id |-> NextId(station), event_id |-> 0, timestamp |-> doc.pgmdate,
                lat |-> doc.lat, lon |-> doc.lon, name |-> doc.name,
                code |-> doc.code, network |-> Network(doc), loadtime |-> now]
    IN  /\ job[p].pc = "found"
        /\ IF job[p].best_sid = 0
           THEN /\ row.id <= MaxStations
                /\ station' = station \cup {row}
                /\ job' = [job EXCEPT ![p].pc = "storing", ![p].best_sid = row.id,
                                      ![p].comps = doc.components]
                /\ last' = Last("begin_store", doc, NoEventDict, 0, Ended("", ""))
           ELSE /\ q.raised
                /\ station' = station
                /\ job' = [job EXCEPT ![p] = IdleJob]
                /\ last' = Last("insert_amps", doc, NoEventDict, 0,
                                [Ended("raised", q.error)
                                    EXCEPT !.best_sid = job[p].best_sid,
                                           !.nrows = job[p].nrows])
        /\ UNCHANGED <<event, channel, pgm, now>>

\* one pass of the loop over the components: the Channel is inserted and
\* committed, then its measurements are saved and committed, or the Channel
\* is deleted again when it has none.  The commit between the Channel and
\* its measurements is not a separate step here
StoreComponent(p) ==
    LET t == ComponentLoop(<<Head(job[p].comps)>>, job[p].best_sid, [n \in {} |-> 0],
                           [channel |-> channel, pgm |-> pgm,
                            channels_inserted |-> job[p].channels_inserted,
                            raised |-> FALSE, error |-> ""])
    IN  /\ job[p].pc = "storing"
        /\ job[p].comps # <<>>
        /\ \A c \in t.channel : c.id <= MaxChannels
        /\ channel' = t.channel
        /\ pgm' = t.pgm
        /\ IF t.raised
           THEN /\ job' = [job EXCEPT ![p] = IdleJob]
                /\ last' = Last("insert_amps", job[p].doc, NoEventDict, 0,
                                [Ended("raised", t.error)
                                    EXCEPT !.best_sid = job[p].best_sid])
           ELSE /\ job' = [job EXCEPT ![p].comps = Tail(@),
                                      ![p].channels_inserted = t.channels_inserted]
                /\ last' = Last("store_component", job[p].doc, NoEventDict, 0,
                                Ended("", ""))
        /\ UNCHANGED <<event, station, now>>

\* the end of insert_amps: the Station is deleted again when no Channel was
\* kept
FinishStore(p) ==
    /\ job[p].pc = "storing"
    /\ job[p].comps = <<>>
    /\ station' = IF job[p].channels_inserted = 0
                  THEN {s \in station : s.id # job[p].best_sid}
                  ELSE station
    /\ job' = [job EXCEPT ![p] = IdleJob]
    /\ last' = Last("insert_amps", job[p].doc, NoEventDict, 0,
                    [Ended("returned", "") EXCEPT !.best_sid = job[p].best_sid])
    /\ UNCHANGED <<event, channel, pgm, now>>

\* associate up to the filter of the rows: the joined rows are read and
\* newstations is computed.  with_for_update() adds nothing to the SELECT of
\* the SQLite store, so no row is locked
ReadStations(p, e) ==
    LET ids == NewStations(station, channel, pgm, e)
    IN  /\ job[p].pc = "idle"
        /\ job' = [job EXCEPT ![p] =
                     [IdleJob EXCEPT !.pc = "read", !.event_id = e.id, !.ids = ids,
                                     !.srows = {s \in station : s.id \in ids}]]
        /\ last' = Last("read_stations", NoDocument, NoEventDict, e.id, Ended("", ""))
        /\ UNCHANGED <<event, station, channel, pgm, now>>

\* the rest of associate: the bulk update of event_id and the commit
UpdateStations(p) ==
    /\ job[p].pc = "read"
    /\ station' = {IF s.id \in job[p].ids THEN [s EXCEPT !.event_id = job[p].event_id]
                   ELSE s : s \in station}
    /\ job' = [job EXCEPT ![p] = IdleJob]
    /\ last' = Last("associate", NoDocument, NoEventDict, job[p].event_id,
                    Ended("returned", ""))
    /\ UNCHANGED <<event, channel, pgm, now>>

GetMetricsJson(e) ==
    LET r == get_metrics_json(e, station, channel, pgm)
    IN  /\ last' = Last("get_metrics_json", NoDocument, NoEventDict, e.id,
                        [Ended(r.outcome, r.error) EXCEPT !.payload = r.features])
        /\ UNCHANGED <<event, station, channel, pgm, now, job>>

\* the first statements of insert_event, insert_amps, associate_amps and
\* clean_database when DB_URL is not in os.environ: KeyError is raised before
\* get_session is called
NotConfigured(op, doc, eventdict, environ) ==
    /\ DB_URL \notin environ
    /\ last' = Last(op, doc, eventdict, 0,
                    [Ended("raised", "KeyError") EXCEPT !.environ = environ])
    /\ UNCHANGED <<event, station, channel, pgm, now, job>>

\* the entry points called in a given environment
InsertAmpsIn(environ, doc) ==
    IF DB_URL \in environ THEN InsertAmps(doc)
    ELSE NotConfigured("insert_amps", doc, NoEventDict, environ)

InsertEventIn(environ, eventdict) ==
    IF DB_URL \in environ THEN InsertEvent(eventdict)
    ELSE NotConfigured("insert_event", NoDocument, eventdict, environ)

CleanDatabaseIn(environ) ==
    IF DB_URL \in environ THEN CleanDatabase
    ELSE NotConfigured("clean_database", NoDocument, NoEventDict, environ)

\* associate_amps: write_event_to_s3 builds the payload, makes the client and
\* calls get_bucket, which raises when S3_BUCKET_URL is not defined;
\* client_ok tells whether the client takes the payload
AssociateAmpsIn(environ, client_ok) ==
    IF DB_URL \notin environ
    THEN NotConfigured("associate_amps", NoDocument, NoEventDict, environ)
    ELSE LET bucket == get_bucket(environ)
             r      == associate_amps(event, station, channel, pgm,
                                      ~bucket.raised /\ client_ok)
             error  == IF r.outcome = "raised" /\ r.error = "Exception" /\ bucket.raised
                       THEN bucket.error ELSE r.error
         IN  /\ station' = r.station
             /\ last' = Last("associate_amps", NoDocument, NoEventDict, 0,
                             [Ended(r.outcome, error) EXCEPT !.exported = r.exported,
                                                             !.environ = environ])
             /\ UNCHANGED <<event, channel, pgm, now, job>>

Tick(t) ==
    /\ t > now
    /\ now' = t
    /\ last' = Last("tick", NoDocument, NoEventDict, 0, Ended("", ""))
    /\ UNCHANGED <<event, station, channel, pgm, job>>

\* the operations of the program
Next ==
    \/ \E doc \in SweepDocs : InsertAmps(doc)
    \/ \E eventdict \in EventDicts : InsertEvent(eventdict)
    \/ \E e \in event : Associate(e)
    \/ \E sink_ok \in BOOLEAN : AssociateAmps(sink_ok)
    \/ CleanDatabase
    \/ \E t \in ClockTimes : Tick(t)

Spec == Init /\ [][Next]_vars

\* ingestion alone: any sequence of insert_amps calls
NextIngest == \E doc \in IngestDocs : InsertAmps(doc)

SpecIngest == Init /\ [][NextIngest]_vars

\* ingestion, the event feed and single association passes
NextAssociate ==
    \/ \E doc \in AssocDocs : InsertAmps(doc)
    \/ \E eventdict \in EventDicts : InsertEvent(eventdict)
    \/ \E e \in event : Associate(e)

SpecAssociate == Init /\ [][NextAssociate]_vars

\* ingestion and the deletion of a Station object through the session
NextSession ==
    \/ \E doc \in AssocDocs : InsertAmps(doc)
    \/ \E kwargs \in StationCalls : NewStation(kwargs)
    \/ \E s \in station : SessionDelete(s)

SpecSession == Init /\ [][NextSession]_vars

\* ingestion, the event feed and the retention purge as the clock advances
NextRetention ==
    \/ \E doc \in RetentionDocs : InsertAmps(doc)
    \/ \E eventdict \in EventFeed : InsertEvent(eventdict)
    \/ CleanDatabase
    \/ \E t \in RetentionTimes : Tick(t)

SpecRetention == Init /\ [][NextRetention]_vars

\* ingestion, the event feed, association passes and the building of the
\* export payload of an event
NextExport ==
    \/ \E doc \in ExportDocs : InsertAmps(doc)
    \/ \E eventdict \in EventDicts : InsertEvent(eventdict)
    \/ \E e \in event : Associate(e)
    \/ \E e \in event : GetMetricsJson(e)

SpecExport == Init /\ [][NextExport]_vars

\* insert_amps calls of several processes, interleaved at the point between
\* the window query and the first insert
NextConcurrent ==
    \/ \E p \in Procs : \E doc \in ConcurrentDocs : FindStation(p, doc)
    \/ \E p \in Procs : StoreRecord(p)

SpecConcurrent == Init /\ [][NextConcurrent]_vars

\* association passes of several processes, interleaved at the point between
\* the read of the rows and the update
NextRace ==
    \/ \E doc \in RaceDocs : InsertAmps(doc)
    \/ \E eventdict \in EventDicts : InsertEvent(eventdict)
    \/ \E p \in Procs : \E e \in event : ReadStations(p, e)
    \/ \E p \in Procs : UpdateStations(p)

SpecRace == Init /\ [][NextRace]_vars

\* insert_amps calls in progress, interleaved at their commits with the
\* event feed and with whole sweeps
NextPartial ==
    \/ \E p \in Procs : \E doc \in PartialDocs : FindStation(p, doc)
    \/ \E p \in Procs : BeginStore(p)
    \/ \E p \in Procs : StoreComponent(p)
    \/ \E p \in Procs : FinishStore(p)
    \/ \E eventdict \in PartialEvents : InsertEvent(eventdict)
    \/ \E sink_ok \in BOOLEAN : AssociateAmps(sink_ok)

SpecPartial == Init /\ [][NextPartial]_vars

\* ingestion of spectral measurements, one event, association passes and the
\* building of the export payload
NextPeriod ==
    \/ \E doc \in PeriodDocs : InsertAmps(doc)
    \/ \E eventdict \in PartialEvents : InsertEvent(eventdict)
    \/ \E e \in event : Associate(e)
    \/ \E e \in event : GetMetricsJson(e)

SpecPeriod == Init /\ [][NextPeriod]_vars

\* the entry points called with and without DB_URL and S3_BUCKET_URL in the
\* environment, as the clock advances
NextEnviron ==
    \/ \E environ \in StoreEnvirons : \E doc \in EnvironDocs : InsertAmpsIn(environ, doc)
    \/ \E environ \in StoreEnvirons : \E eventdict \in EnvironEvents :
          InsertEventIn(environ, eventdict)
    \/ \E environ \in SUBSET Environ : \E client_ok \in BOOLEAN :
          AssociateAmpsIn(environ, client_ok)
    \/ \E environ \in StoreEnvirons : CleanDatabaseIn(environ)
    \/ \E t \in ClockTimes : Tick(t)

SpecEnviron == Init /\ [][NextEnviron]_vars

\* ingestion, the event feed and whole sweeps
NextSweep ==
    \/ \E doc \in SweepDocs : InsertAmps(doc)
    \/ \E eventdict \in EventDicts : InsertEvent(eventdict)
    \/ \E sink_ok \in BOOLEAN : AssociateAmps(sink_ok)

SpecSweep == Init /\ [][NextSweep]_vars

-----------------------------------------------------------------------------
(* Properties                                                              *)

ChannelsOf(s) == {c \in channel : c.station_id = s.id}

PgmsOf(c) == {p \in pgm : p.channel_id = c.id}

\* the event row an association pass was run for
EventOf(id) == CHOOSE e \in event : e.id = id

\* C1: after associate(session, event), a Station that has a Channel with a
\* Measurement is associated with the event by the pass if and only if its
\* timestamp is strictly between origin - 60 s and origin + 180 s and its
\* distance from the origin is strictly below 500 km; every other such
\* Station keeps the association it had.
C1_InWindows(s, e) ==
    /\ e.time - 60 < s.timestamp
    /\ s.timestamp < e.time + 180
    /\ abs(s.lat - e.lat) < 500

C2_Idempotent ==
    [][(/\ last.op = "insert_amps" /\ last.outcome = "returned"
        /\ last'.op = "insert_amps" /\ last'.doc = last.doc)
       => /\ last'.outcome = "returned"
          /\ Cardinality(station') = Cardinality(station)
          /\ Cardinality(channel') = Cardinality(channel)
          /\ Cardinality(pgm') = Cardinality(pgm)]_vars

\* C3: no insert_amps call changes a stored Measurement: every row keeps
\* its Channel, its type label and its value.
C3_ValuesKept ==
    [][last'.op = "insert_amps" => \A p \in pgm : p \in pgm']_vars

\* a document with another value for pga under HN1 was ingested into the
\* window of a station that holds the original value, and holds it still
C3_Witness ==
    /\ last.op = "insert_amps"
    /\ last.nrows >= 1
    /\ last.doc.components = <<HN("HN1", <<Peak("pga", 1962)>>)>>
    /\ \E s \in station : \E c \in ChannelsOf(s) :
          /\ abs(s.timestamp - last.doc.pgmdate) < 10
          /\ c.channel = "HN1"
          /\ \E p \in PgmsOf(c) : p.imt = ImtLabel("pga", <<>>) /\ p.value = 100
          /\ \A p \in PgmsOf(c) : p.value # 200

\* C4: no Channel holds two Measurements with the same type label.
C4_UniqueImt ==
    \A p, q \in pgm : (p.channel_id = q.channel_id /\ p.imt = q.imt) => p = q

\* C5: no Station has two Channels with the same channel name.
C5_UniqueChannel ==
    \A c, d \in channel : (c.station_id = d.station_id /\ c.channel = d.channel) => c = d

\* C6: no two Stations of one (network, code) have timestamps less than 10
\* seconds apart: a report inside the window of a Station creates no second
\* row.
C6_OneStationPerWindow ==
    \A s, t \in station :
        (s # t /\ s.network = t.network /\ s.code = t.code)
            => abs(s.timestamp - t.timestamp) >= 10

\* a report timed 4 or 5 seconds from the only Station of its key was
\* ingested, and there is still one
C6_Witness ==
    /\ last.op = "insert_amps"
    /\ last.nrows = 1
    /\ Cardinality(station) = 1
    /\ \E s \in station :
          /\ s.network = "us" /\ s.code = last.doc.code
          /\ s.timestamp # last.doc.pgmdate
          /\ abs(s.timestamp - last.doc.pgmdate) < 10

\* the Station closest in time to a report among those of its window, the
\* first by id on a tie
C7_Closest(doc) ==
    LET rows == {s \in station : /\ s.network = "us" /\ s.code = doc.code
                                 /\ abs(s.timestamp - doc.pgmdate) < 10}
        d    == MinOf({abs(s.timestamp - doc.pgmdate) : s \in rows})
    IN  CHOOSE s \in rows :
            /\ abs(s.timestamp - doc.pgmdate) = d
            /\ \A t \in rows : abs(t.timestamp - doc.pgmdate) = d => s.id <= t.id

\* C7: when the window holds several Stations, the Measurements of the
\* report are stored under the Channels of the Station closest in time.
C7_MergedIntoClosest ==
    (last.op = "insert_amps" /\ last.nrows >= 2) =>
        \A i \in 1..Len(last.doc.components) :
            LET comp == last.doc.components[i]
            IN  \A j \in 1..Len(comp.pgms) :
                    ParsePgm(comp.pgms[j]).kind = "ok" =>
                        \E c \in ChannelsOf(C7_Closest(last.doc)) :
                            /\ c.channel = comp.name
                            /\ \E p \in PgmsOf(c) : p.imt = ParsePgm(comp.pgms[j]).imt

\* C8: after an insert_amps call that returns normally the store has no
\* Channel without Measurements and no Station without Channels.
C8_NoEmptyEntities ==
    (last.op = "insert_amps" /\ last.outcome = "returned") =>
        /\ \A c \in channel : PgmsOf(c) # {}
        /\ \A s \in station : ChannelsOf(s) # {}

\* C9: an insert_amps call that raises leaves the Station, Channel and
\* Measurement tables as they were before the call.
C9_FailedCallChangesNothing ==
    [][(last'.op = "insert_amps" /\ last'.outcome = "raised")
       => (station' = station /\ channel' = channel /\ pgm' = pgm)]_vars

\* C10: every Channel refers to an existing Station and every Measurement to
\* an existing Channel.
C10_NoOrphans ==
    /\ \A c \in channel : \E s \in station : s.id = c.station_id
    /\ \A p \in pgm : \E c \in channel : c.id = p.channel_id

\* C11: after a sweep, every Station that was exported for an Event is still
\* in the store with its Channels, and it is no longer associated with that
\* Event, so that a later Event can take it.
C11_ExportedStationsKept ==
    last.op = "associate_amps" =>
        \A i \in 1..Len(last.exported) :
            \A sid \in last.exported[i].stations :
                \E s \in station :
                    /\ s.id = sid
                    /\ s.event_id # last.exported[i].event_id
                    /\ ChannelsOf(s) # {}

\* C12: after associate(session, event), at most one Station of each
\* (network, code) is associated with the event, and no other Station of that
\* pair that is inside the time and distance windows of the event is left in
\* the store.
C12_OneStationPerCode ==
    last.op = "associate" =>
        \A s, t \in JoinedStations(station, channel, pgm) :
            (/\ s.event_id = last.event_id
             /\ C1_InWindows(t, EventOf(last.event_id))
             /\ s.network = t.network
             /\ s.code = t.code) => s = t

\* C13: clean_database removes exactly the Stations loaded more than 15 days
\* before now and exactly the Events whose origin is more than 90 days before
\* now, and keeps every other Station and Event; what is left of each table
\* is a function of that table and the clock alone, whichever purge is first.
C13_PurgeExact ==
    [][last'.op = "clean_database" =>
        /\ station' = {s \in station : s.loadtime >= now - 15 * 86400}
        /\ event' = {e \in event : e.time >= now - 90 * 86400}]_vars

\* a purge has kept a Station loaded exactly 15 days ago and an Event whose
\* origin is exactly 90 days ago, and has removed a Station (its Channel is
\* still there) and the Event that had id 1
C13_Witness ==
    /\ last.op = "clean_database"
    /\ \E s \in station : s.loadtime = now - 15 * 86400
    /\ \E c \in channel : \A s \in station : s.id # c.station_id
    /\ \E e \in event : e.time = now - 90 * 86400 /\ e.id = 2
    /\ \A e \in event : e.id # 1

\* the identifiers of a descriptor: eventid and the entries of ids
C14_AllIds(eventdict) ==
    {eventdict.eventid} \cup {eventdict.ids[i] : i \in 1..Len(eventdict.ids)}

\* C14: insert_event with a descriptor of the shape the tests pass (keys lat
\* and lon) whose eventid or one of whose ids names a stored Event completes,
\* adds no row, and leaves a row of that Event's id carrying the eventid,
\* time, lat, lon, depth, magnitude and locstring of the descriptor.
C14_UpdatedInPlace ==
    [][(/\ last'.op = "insert_event"
        /\ last'.eventdict.lat_keys
        /\ \E e \in event : e.eventid \in C14_AllIds(last'.eventdict))
       => /\ last'.outcome = "returned"
          /\ {e.id : e \in event'} = {e.id : e \in event}
          /\ \E e \in event : \E f \in event' :
                /\ e.eventid \in C14_AllIds(last'.eventdict)
                /\ f.id = e.id
                /\ f.eventid = last'.eventdict.eventid
                /\ f.time = last'.eventdict.time
                /\ f.lat = last'.eventdict.lat
                /\ f.lon = last'.eventdict.lon
                /\ f.depth = last'.eventdict.depth
                /\ f.magnitude = last'.eventdict.magnitude
                /\ f.locstring = last'.eventdict.locstring]_vars

\* C15: no two Event rows have the same eventid, whatever insert_event calls
\* and purges came before.
C15_UniqueEventid ==
    \A e, f \in event : e.eventid = f.eventid => e = f

\* a descriptor both of whose alternate identifiers named a stored Event has
\* updated the one that was found first; the other is still there
C15_Witness ==
    /\ last.op = "insert_event"
    /\ last.value = "True"
    /\ last.eventdict.ids = <<"us1", "us2">>
    /\ \E e, f \in event :
          /\ e.id = 2 /\ e.eventid = last.eventdict.eventid
          /\ f.id = 1 /\ f.eventid = "us2"

\* C16: the payload of get_metrics_json for an Event has exactly one feature
\* per Station associated with the Event, and the components map of the
\* feature of a Station has exactly one entry per Channel of the Station,
\* under the name of the Channel.
C16_PayloadShape ==
    (last.op = "get_metrics_json" /\ last.outcome = "returned") =>
        LET stations == {s \in station : s.event_id = last.event_id}
        IN  /\ Len(last.payload) = Cardinality(stations)
            /\ \A s \in stations :
                  \E i \in 1..Len(last.payload) :
                      /\ last.payload[i].network_code = s.network
                      /\ last.payload[i].station_code = s.code
                      /\ last.payload[i].coordinates = <<s.lon, s.lat>>
                      /\ DOMAIN last.payload[i].components
                            = {c.channel : c \in ChannelsOf(s)}
                      /\ Cardinality(DOMAIN last.payload[i].components)
                            = Cardinality(ChannelsOf(s))

\* C17: insert_amps of a document that does not parse, or whose root element
\* is not 'amplitudes', raises its error and leaves the Station, Channel and
\* Measurement tables as they were.
C17_RejectedUnchanged ==
    [][(/\ last'.op = "insert_amps"
        /\ (~last'.doc.wellformed \/ last'.doc.root # "amplitudes"))
       => /\ last'.outcome = "raised"
          /\ last'.error = "Exception"
          /\ station' = station
          /\ channel' = channel
          /\ pgm' = pgm]_vars

\* a document with another root element was rejected while the store held a
\* Station
C17_Witness ==
    /\ last.op = "insert_amps"
    /\ last.doc.wellformed
    /\ last.doc.root # "amplitudes"
    /\ last.outcome = "raised"
    /\ station # {}

\* C18: insert_amps of a well-formed amplitudes document that has no PGMTime
\* and not all of year, month, day, hour, minute and second returns without
\* raising and leaves the tables as they were.
C18_NoTimeSkipped ==
    [][(/\ last'.op = "insert_amps"
        /\ last'.doc.wellformed
        /\ last'.doc.root = "amplitudes"
        /\ last'.doc.timesrc \in {"none", "partial"})
       => /\ last'.outcome = "returned"
          /\ station' = station
          /\ channel' = channel
          /\ pgm' = pgm]_vars

\* C19: a sweep gives every Event of the backlog its association pass even
\* when the export of one of them fails: after associate_amps no Station that
\* has a Channel with a Measurement and lies inside the windows of an Event
\* is still unassociated.
C19_SweepCoversBacklog ==
    last.op = "associate_amps" =>
        \A e \in event :
            \A s \in JoinedStations(station, channel, pgm) :
                C1_InWindows(s, e) => s.event_id # 0

\* C20: insert_amps calls for reports of one (network, code) less than 10
\* seconds apart that run at the same time do not interleave: once they have
\* all ended, the store holds what some sequential order would have left, one
\* Station for that key and window.
C20_NoInterleaving ==
    (\A p \in Procs : job[p].pc = "idle") =>
        \A s \in station :
            Cardinality({t \in station : /\ t.network = s.network
                                         /\ t.code = s.code
                                         /\ abs(t.timestamp - s.timestamp) < 10}) = 1

\* C21: the read-filter-update of an association pass is atomic with respect
\* to another pass: when a pass writes its update, every Station it writes
\* still has the association it had when the pass read it, or that of the
\* Event of the pass itself: no pass overwrites what a pass for another Event
\* has set in between.
C21_AtomicPass ==
    [][\A p \in Procs :
          (job[p].pc = "read" /\ job'[p].pc = "idle") =>
              \A s \in station :
                  s.id \in job[p].ids =>
                      \/ s.event_id = job[p].event_id
                      \/ \E r \in job[p].srows :
                            r.id = s.id /\ r.event_id = s.event_id]_vars

\* C22: Station(event_id=None, ...) passes the validation of the constructor
\* and is stored: the call returns and the store has a Station row more.
C22_NoneAccepted ==
    [][(last'.op = "Station" /\ last'.kwargs.types.event_id = "NoneType")
       => /\ last'.outcome = "returned"
          /\ Cardinality(station') = Cardinality(station) + 1]_vars

\* C23: insert_event returns True when it has inserted an Event row and False
\* when it has not.
C23_ReturnValue ==
    [][(last'.op = "insert_event" /\ last'.outcome = "returned")
       => last'.value = IF Cardinality(event') > Cardinality(event)
                        THEN "True" ELSE "False"]_vars

\* the label and the value C24 expects for a measurement: acc, pga and sa
\* divided by 9.81 once (values are in hundredths), vel and pgv as they are,
\* acc under pga and vel under pgv
C24_Label(m) ==
    IF m.tag \in {"acc", "pga"} THEN "pga"
    ELSE IF m.tag \in {"vel", "pgv"} THEN "pgv" ELSE "psa"

C24_Value(m) ==
    IF m.tag \in {"acc", "pga", "sa"} THEN (m.value * 100) \div 981 ELSE m.value

C24_Stored(m) ==
    /\ m.tag \in {"acc", "pga", "sa", "vel", "pgv"}
    /\ m.valkind = "num"

\* C24: an insert_amps call that stores a new Station stores, for every
\* measurement of the tags acc, pga, sa, vel and pgv of its components, a row
\* with the expected label and value under a Channel of the component's name,
\* and stores no other row.
C24_DividedOnce ==
    [][(/\ last'.op = "insert_amps"
        /\ last'.outcome = "returned"
        /\ last'.doc.timesrc \in {"PGMTime", "fields"}
        /\ last'.nrows = 0)
       => LET comps == last'.doc.components
              kept  == {i \in 1..Len(comps) : comps[i].qualkind # "int" \/ comps[i].qual <= 4}
          IN  /\ \A i \in kept : \A j \in 1..Len(comps[i].pgms) :
                    C24_Stored(comps[i].pgms[j]) =>
                        \E c \in channel' \ channel : \E p \in pgm' \ pgm :
                            /\ c.station_id = last'.best_sid
                            /\ c.channel = comps[i].name
                            /\ p.channel_id = c.id
                            /\ p.imt.name = C24_Label(comps[i].pgms[j])
                            /\ p.value = C24_Value(comps[i].pgms[j])
              /\ \A p \in pgm' \ pgm :
                    \E i \in kept : \E j \in 1..Len(comps[i].pgms) :
                        /\ C24_Stored(comps[i].pgms[j])
                        /\ p.imt.name = C24_Label(comps[i].pgms[j])
                        /\ p.value = C24_Value(comps[i].pgms[j])]_vars

\* a document with an acc of 9.81 and a pga of 19.62 was stored: both are
\* under pga, as 1.00 and 2.00
C24_Witness ==
    /\ last.op = "insert_amps"
    /\ last.outcome = "returned"
    /\ last.nrows = 0
    /\ \E i \in 1..Len(last.doc.components) :
          \E j, k \in 1..Len(last.doc.components[i].pgms) :
              /\ last.doc.components[i].pgms[j] = Peak("acc", 981)
              /\ last.doc.components[i].pgms[k] = Peak("pga", 1962)
    /\ \E c \in channel : \E p, q \in PgmsOf(c) :
          /\ c.station_id = last.best_sid
          /\ p.imt.name = "pga" /\ p.value = 100
          /\ q.imt.name = "pga" /\ q.value = 200


\* C25: an associate pass for an event never changes the association of a
\* Station that is associated with a different event: the Station row is the
\* same after the pass as before it.
C25_ClaimedStationsKept ==
    [][last'.op = "associate" =>
        \A s \in station :
            (s.event_id # 0 /\ s.event_id # last'.event_id) => s \in station']_vars


\* C26: an associate pass leaves every Station outside the time window or
\* outside the distance window of its event exactly as it was, leaves the
\* Channel and Measurement rows as they were, and neither adds nor removes a
\* Station row.
C26_OutsideUntouched ==
    [][last'.op = "associate" =>
        /\ \A s \in station :
              ~C1_InWindows(s, EventOf(last'.event_id)) => s \in station'
        /\ {s.id : s \in station'} = {s.id : s \in station}
        /\ channel' = channel
        /\ pgm' = pgm]_vars

\* a pass has associated one station and has left unassociated another whose
\* timestamp is at or before the start of the time window
C26_Witness ==
    /\ last.op = "associate"
    /\ \E s1, s2 \in JoinedStations(station, channel, pgm) :
          /\ s1.event_id = last.event_id
          /\ s2.timestamp <= EventOf(last.event_id).time - TMIN
          /\ abs(s2.lat - EventOf(last.event_id).lat) < DISTANCE
          /\ s2.event_id = 0


\* C27: in every state the association of each Station is absent (None) or
\* is the id of an Event of the store; a Station insert_amps has just
\* created is among them.
C27_AssociationValid ==
    \A s \in station : s.event_id = None \/ \E e \in event : e.id = s.event_id


\* C28: when clean_database purges an Event, no Station left in the store
\* after the purge is associated with that Event.
C28_PurgedEventStationsGone ==
    [][last'.op = "clean_database" =>
        \A e \in event \ event' :
            \A s \in station' : s.event_id # e.id]_vars


\* C29: in a sweep the Stations of an Event are released only after the
\* Event's payload was handed to the sink: every Station the sweep removed
\* is in the Stations of an export of the sweep and under its code and
\* coordinates in the features of that export's payload; every export has at
\* least one Station and one feature per Station; and a sweep that returns
\* leaves no Station associated with an Event of the store.
C29_ExportThenRelease ==
    [][last'.op = "associate_amps" =>
        LET x == last'.exported
        IN  /\ \A s \in station :
                  (\A s2 \in station' : s2.id # s.id) =>
                      \E i \in 1..Len(x) :
                          /\ s.id \in x[i].stations
                          /\ \E f \in 1..Len(x[i].payload) :
                                /\ x[i].payload[f].station_code = s.code
                                /\ x[i].payload[f].coordinates = <<s.lon, s.lat>>
            /\ \A i \in 1..Len(x) :
                  /\ x[i].stations # {}
                  /\ Len(x[i].payload) = Cardinality(x[i].stations)
            /\ last'.outcome = "returned" =>
                  \A s2 \in station' : \A e \in event' : s2.event_id # e.id]_vars

\* a sweep has returned after exporting two Stations for one Event
C29_Witness ==
    /\ last.op = "associate_amps"
    /\ last.outcome = "returned"
    /\ \E i \in 1..Len(last.exported) :
          /\ Cardinality(last.exported[i].stations) = 2
          /\ Len(last.exported[i].payload) = 2
    /\ station = {}


\* the components hold a measurement that the loop would still store
C30_HasWrites(comps) ==
    \E k \in 1..Len(comps) :
        /\ ~(comps[k].qualkind = "int" /\ comps[k].qual > 4)
        /\ \E i \in 1..Len(comps[k].pgms) : ParsePgm(comps[k].pgms[i]).kind = "ok"

\* C30: a sweep never exports and releases a Station while an insert_amps
\* call in progress still has a Channel with Measurements of that Station to
\* write.
C30_NoPartialExport ==
    last.op = "associate_amps" =>
        \A p \in Procs :
            (job[p].pc = "storing" /\ C30_HasWrites(job[p].comps)) =>
                \A i \in 1..Len(last.exported) :
                    job[p].best_sid \notin last.exported[i].stations


\* the number of digits after the decimal point of a period attribute
C31_Decimals(period) ==
    IF \E i \in 1..Len(period) : period[i] = "."
    THEN Len(period) - (CHOOSE i \in 1..Len(period) : period[i] = ".")
    ELSE 0

C31_Pow10(n) == IF n = 0 THEN 1 ELSE IF n = 1 THEN 10 ELSE IF n = 2 THEN 100 ELSE 1000

\* two period attributes are the same number
C31_SamePeriod(p1, p2) ==
    DigitsValue(RemoveDots(p1)) * C31_Pow10(C31_Decimals(p2))
        = DigitsValue(RemoveDots(p2)) * C31_Pow10(C31_Decimals(p1))

\* a period of the payload, held in tenths, is the number of a period attribute
C31_PayloadPeriodIs(tenths, period) ==
    tenths * C31_Pow10(C31_Decimals(period)) = 10 * DigitsValue(RemoveDots(period))

\* the sa measurements of a component
C31_Spectrals(comp) ==
    {comp.pgms[i] : i \in {j \in 1..Len(comp.pgms) :
                              comp.pgms[j].tag = "sa" /\ comp.pgms[j].hasperiod}}

\* C31: for every Station stored from a document, two sa measurements of one
\* component with different periods are stored under the Channel with
\* different labels, and the payload get_metrics_json returns for the Event
\* of the Station has, under that Channel, a spectral entry with the period
\* and the value of each sa measurement of the component.
C31_PeriodRoundTrip ==
    \A doc \in PeriodDocs :
        \A s \in station :
            s.code = doc.code =>
                \A k \in 1..Len(doc.components) :
                    LET comp == doc.components[k]
                    IN  /\ \A m1, m2 \in C31_Spectrals(comp) :
                              ~C31_SamePeriod(m1.period, m2.period) =>
                                  \E c \in ChannelsOf(s) :
                                      \E q1, q2 \in PgmsOf(c) :
                                          /\ c.channel = comp.name
                                          /\ q1.value = DivG(m1.value)
                                          /\ q2.value = DivG(m2.value)
                                          /\ q1.imt # q2.imt
                        /\ (/\ last.op = "get_metrics_json"
                            /\ last.outcome = "returned"
                            /\ s.event_id = last.event_id) =>
                              \A m \in C31_Spectrals(comp) :
                                  \E i \in 1..Len(last.payload) :
                                      /\ last.payload[i].station_code = s.code
                                      /\ comp.name \in DOMAIN last.payload[i].components
                                      /\ LET sa == last.payload[i].components[comp.name].SA
                                         IN  \E j \in 1..Len(sa) :
                                                /\ sa[j].value = DivG(m.value)
                                                /\ C31_PayloadPeriodIs(sa[j].period,
                                                                       m.period)


\* C32: an insert_amps call whose window query finds a Station leaves every
\* Station row as it was: timestamp, position, name, load time and
\* association are unchanged, and no Station is added or removed.
C32_StationKept ==
    [][(last'.op = "insert_amps" /\ last'.nrows > 0) => station' = station]_vars

\* a report dated by its year .. second elements, four seconds after the
\* Station it was matched with, has been handled
C32_Witness ==
    /\ last.op = "insert_amps"
    /\ last.nrows > 0
    /\ last.doc.timesrc = "fields"
    /\ last.best_sid # 0
    /\ \E s \in station :
          /\ s.id = last.best_sid
          /\ s.code = last.doc.code
          /\ s.timestamp = last.doc.pgmdate - 4
          /\ s.loadtime = now


\* the entry points that open the store
C33_EntryPoints == {"insert_event", "insert_amps", "associate_amps", "clean_database"}

\* a call without DB_URL raises KeyError and leaves every table as it was
C33_StoreMissing ==
    (last'.op \in C33_EntryPoints /\ DB_URL \notin last'.environ) =>
        /\ last'.outcome = "raised"
        /\ last'.error = "KeyError"
        /\ <<event, station, channel, pgm>>' = <<event, station, channel, pgm>>

\* the first half of C33 alone
C33_NoStoreNoWrite == [][C33_StoreMissing]_vars

\* C33: a call of insert_event, insert_amps, associate_amps or clean_database
\* without DB_URL raises KeyError and leaves every table as it was; and a
\* call of associate_amps with DB_URL and without S3_BUCKET_URL leaves no
\* Station associated with an Event that was not so associated, row for row,
\* before the call.
C33_MissingConfiguration ==
    [][/\ C33_StoreMissing
       /\ (/\ last'.op = "associate_amps"
           /\ DB_URL \in last'.environ
           /\ S3_BUCKET_URL \notin last'.environ) =>
            \A s \in station' :
                (\E e \in event' : e.id = s.event_id) => s \in station]_vars

====
